---- MODULE Spec2Model ----
(***************************************************************************)
(* PingPong.game_loop of src/pingpong/game/pingpong_ml.py: the tick loop   *)
(* of the game process, its non-blocking intake _recv_instruction, and the *)
(* blocking handshake _wait_ml_process_ready, together with the two ml     *)
(* processes that put messages on the instruction pipes.                   *)
(***************************************************************************)
EXTENDS Integers, Sequences, FiniteSets, TLC

\* ------------------------------------------------------------------ bounds
\* The two instruction pipes hold at most MaxInFlight unread messages together.
MaxInFlight == 2
\* A round is decided after at most MaxFrame calls of scene.update.
MaxFrame == 2

\* ------------------------------------------------------------ message types
Sides == {"1P", "2P"}

\* comm.PlatformAction
PlatformAction == {"NONE", "MOVE_LEFT", "MOVE_RIGHT", "READY"}

\* gamecore.PlatformMoveAction: the names scene.update accepts
PlatformMoveAction == {"NONE", "MOVE_LEFT", "MOVE_RIGHT"}

\* gamecore.GameStatus
GameStatus == {"GAME_ALIVE", "GAME_1P_WIN", "GAME_2P_WIN"}

\* The sequence numbers the ml processes put in their instructions.
SequenceIds == {1}

GameInstruction(sequence, command) ==
    [type |-> "GameInstruction", sequence |-> sequence, command |-> command]

\* essential.exception.ExceptionMessage
ExceptionMessage == [type |-> "ExceptionMessage"]

\* Any picklable object that is neither a GameInstruction nor an ExceptionMessage.
OtherObject == [type |-> "object"]

\* Python's None
None == <<>>

\* The commands an ml process can put in a GameInstruction: those of
\* PlatformAction, and a value that is none of them.
Commands == PlatformAction \cup {"UNKNOWN"}

\* What an ml process can put on its instruction pipe.
Messages ==
    {GameInstruction(s, c) : s \in SequenceIds, c \in Commands}
        \cup {ExceptionMessage, OtherObject}

isinstance(obj, cls) == obj.type = cls

\* ------------------------------------------------------------------- state
VARIABLES
    pc,           \* the statement of game_loop the game process is at
    recv_end,     \* _ml_pipes[side].recv_end: the unread messages, oldest first
    send_end,     \* _ml_pipes[side].send_end: the scene infos sent since scene.reset()
    main_pipe,    \* _main_pipe: what was sent on it since the game process last
                  \* began to wait (the tick wait, or the wait after scene.reset())
    scene,        \* gamecore.Scene: its frame count and game status
    scene_info,   \* the local scene_info of game_loop
    ready_instruct, \* the local ready_instruct of the running wait_ready_command
    polled,       \* per side, what target_pipe.poll()/recv() took in this tick
    instruction   \* the locals instruction_1P and instruction_2P of game_loop

vars ==
    <<pc, recv_end, send_end, main_pipe, scene, scene_info, ready_instruct, polled,
      instruction>>

\* ------------------------------------------------------- gamecore.Scene
\* Scene.fill_scene_info_obj(SceneInfo())
fill_scene_info_obj(s) ==
    [type |-> "SceneInfo", frame |-> s.frame, status |-> s.status]

\* Scene(False) and Scene.reset(): a fresh round
SceneInit == [frame |-> 0, status |-> "GAME_ALIVE"]

\* The outcomes of Scene.update: one more frame, and the status the physics
\* decide (not modelled: any status, a win at the latest at frame MaxFrame).
SceneUpdate(s) ==
    {[frame |-> s.frame + 1, status |-> st] :
        st \in IF s.frame + 1 >= MaxFrame
               THEN {"GAME_1P_WIN", "GAME_2P_WIN"} ELSE GameStatus}

\* --------------------------------------------------- _recv_instruction
\* GameInstruction(-1, comm.PlatformAction.NONE)
DefaultInstruction == GameInstruction(-1, "NONE")

\* target_pipe.poll() and target_pipe.recv(): the message taken, if any
RecvPolled(pipe) == IF pipe # <<>> THEN <<Head(pipe)>> ELSE <<>>

\* Mutant: the call reads everything the pipe holds.
RecvRest_Drain(pipe) == <<>>

\* What the pipe holds after the call.
RecvRest(pipe) == IF pipe # <<>> THEN Tail(pipe) ELSE pipe

\* Mutant: the exception is not passed to the main process.
RecvRelay_Silent(pipe) == <<>>

\* What the call sends on _main_pipe.
RecvRelay(pipe) ==
    IF pipe # <<>> /\ isinstance(Head(pipe), "ExceptionMessage")
    THEN <<(<<Head(pipe), None>>)>>
    ELSE <<>>

\* Mutant: an instruction with an invalid command is replaced by the dummy one.
RecvReturn_DummyOnInvalid(pipe) ==
    IF pipe # <<>>
    THEN LET received == Head(pipe) IN
         IF ~isinstance(received, "GameInstruction")
         THEN DefaultInstruction
         ELSE IF received.command # "MOVE_LEFT" /\ received.command # "MOVE_RIGHT"
              THEN DefaultInstruction
              ELSE received
    ELSE DefaultInstruction

\* Mutant: the command of the instruction received is not checked.
RecvReturn_Unchecked(pipe) ==
    IF pipe # <<>>
    THEN LET received == Head(pipe) IN
         IF ~isinstance(received, "GameInstruction")
         THEN DefaultInstruction
         ELSE received
    ELSE DefaultInstruction

\* The GameInstruction the call returns.
RecvReturn(pipe) ==
    IF pipe # <<>>
    THEN LET received == Head(pipe) IN
         IF ~isinstance(received, "GameInstruction")
         THEN DefaultInstruction
         ELSE IF received.command # "MOVE_LEFT" /\ received.command # "MOVE_RIGHT"
              THEN [received EXCEPT !.command = "NONE"]
              ELSE received
    ELSE DefaultInstruction

\* ------------------------------------------------------------------ Init
Init ==
    /\ pc = "wait_1P"
    /\ recv_end = [s \in Sides |-> <<>>]
    /\ send_end = [s \in Sides |-> <<>>]
    /\ main_pipe = <<>>
    /\ scene = SceneInit
    /\ scene_info = fill_scene_info_obj(SceneInit)
    /\ ready_instruct = None
    /\ polled = [s \in Sides |-> <<>>]
    /\ instruction = [s \in Sides |-> None]

\* ------------------------------------------------------- the ml processes
\* An ml process puts a message on its instruction pipe.
MLSend(side, msg) ==
    /\ Len(recv_end["1P"]) + Len(recv_end["2P"]) < MaxInFlight
    /\ recv_end' = [recv_end EXCEPT ![side] = Append(@, msg)]
    /\ UNCHANGED <<pc, send_end, main_pipe, scene, scene_info, ready_instruct, polled,
                   instruction>>

\* ------------------------------------------------ _wait_ml_process_ready
\* Mutant: the two calls of wait_ready_command are in the other order.
WaitLabel_Swapped(side) == IF side = "1P" THEN "wait_2P" ELSE "wait_1P"

\* The statement of _wait_ml_process_ready that waits on side.
WaitLabel(side) == IF side = "1P" THEN "wait_1P" ELSE "wait_2P"

\* Mutant: the second call of wait_ready_command is missing.
AfterWait_FirstOnly(side) == "send"

\* Where the game process goes when wait_ready_command(side) returns.
AfterWait(side) == IF side = "1P" THEN "wait_2P" ELSE "send"

\* Mutant: the return after the exception is passed on is missing.
WaitReadyCommand_NoReturn(side) ==
    /\ pc = WaitLabel(side)
    /\ recv_end[side] # <<>>
    /\ LET received == Head(recv_end[side]) IN
       /\ recv_end' = [recv_end EXCEPT ![side] = Tail(@)]
       /\ IF isinstance(received, "ExceptionMessage")
          THEN /\ main_pipe' = Append(main_pipe, <<received, None>>)
               /\ ready_instruct' = <<received>>
               /\ pc' = pc
          ELSE IF isinstance(received, "GameInstruction")
                  /\ received.command = "READY"
               THEN /\ main_pipe' = main_pipe
                    /\ ready_instruct' = None
                    /\ pc' = AfterWait(side)
               ELSE /\ main_pipe' = main_pipe
                    /\ ready_instruct' = <<received>>
                    /\ pc' = pc
    /\ UNCHANGED <<send_end, scene, scene_info, polled, instruction>>

\* Mutant: any GameInstruction ends the wait, whatever its command.
WaitReadyCommand_AnyInstruction(side) ==
    /\ pc = WaitLabel(side)
    /\ recv_end[side] # <<>>
    /\ LET received == Head(recv_end[side]) IN
       /\ recv_end' = [recv_end EXCEPT ![side] = Tail(@)]
       /\ IF isinstance(received, "ExceptionMessage")
          THEN /\ main_pipe' = Append(main_pipe, <<received, None>>)
               /\ ready_instruct' = None
               /\ pc' = AfterWait(side)
          ELSE IF isinstance(received, "GameInstruction")
               THEN /\ main_pipe' = main_pipe
                    /\ ready_instruct' = None
                    /\ pc' = AfterWait(side)
               ELSE /\ main_pipe' = main_pipe
                    /\ ready_instruct' = <<received>>
                    /\ pc' = pc
    /\ UNCHANGED <<send_end, scene, scene_info, polled, instruction>>

\* Mutant: what is queued behind the READY command is thrown away with it.
WaitReadyCommand_Flush(side) ==
    /\ pc = WaitLabel(side)
    /\ recv_end[side] # <<>>
    /\ LET received == Head(recv_end[side]) IN
       IF isinstance(received, "ExceptionMessage")
       THEN /\ recv_end' = [recv_end EXCEPT ![side] = Tail(@)]
            /\ main_pipe' = Append(main_pipe, <<received, None>>)
            /\ ready_instruct' = None
            /\ pc' = AfterWait(side)
       ELSE IF isinstance(received, "GameInstruction")
               /\ received.command = "READY"
            THEN /\ recv_end' = [recv_end EXCEPT ![side] = <<>>]
                 /\ main_pipe' = main_pipe
                 /\ ready_instruct' = None
                 /\ pc' = AfterWait(side)
            ELSE /\ recv_end' = [recv_end EXCEPT ![side] = Tail(@)]
                 /\ main_pipe' = main_pipe
                 /\ ready_instruct' = <<received>>
                 /\ pc' = pc
    /\ UNCHANGED <<send_end, scene, scene_info, polled, instruction>>

\* Mutant: the READY command is not recognised; only an exception ends the wait.
WaitReadyCommand_ReadyIgnored(side) ==
    /\ pc = WaitLabel(side)
    /\ recv_end[side] # <<>>
    /\ LET received == Head(recv_end[side]) IN
       /\ recv_end' = [recv_end EXCEPT ![side] = Tail(@)]
       /\ IF isinstance(received, "ExceptionMessage")
          THEN /\ main_pipe' = Append(main_pipe, <<received, None>>)
               /\ ready_instruct' = None
               /\ pc' = AfterWait(side)
          ELSE /\ main_pipe' = main_pipe
               /\ ready_instruct' = <<received>>
               /\ pc' = pc
    /\ UNCHANGED <<send_end, scene, scene_info, polled, instruction>>

\* One turn of the loop of wait_ready_command: a blocking recv and its tests.
\* ready_instruct is the message read; it is gone when the function returns.
WaitReadyCommand(side) ==
    /\ pc = WaitLabel(side)
    /\ recv_end[side] # <<>>
    /\ LET received == Head(recv_end[side]) IN
       /\ recv_end' = [recv_end EXCEPT ![side] = Tail(@)]
       /\ IF isinstance(received, "ExceptionMessage")
          THEN /\ main_pipe' = Append(main_pipe, <<received, None>>)
               /\ ready_instruct' = None
               /\ pc' = AfterWait(side)
          ELSE IF isinstance(received, "GameInstruction")
                  /\ received.command = "READY"
               THEN /\ main_pipe' = main_pipe
                    /\ ready_instruct' = None
                    /\ pc' = AfterWait(side)
               ELSE /\ main_pipe' = main_pipe
                    /\ ready_instruct' = <<received>>
                    /\ pc' = pc
    /\ UNCHANGED <<send_end, scene, scene_info, polled, instruction>>

\* ------------------------------------------------------------ game_loop
\* Mutant: the scene info is sent to 1P only.
SendSceneInfo_OnlyFirst ==
    /\ pc = "send"
    /\ send_end' = [send_end EXCEPT !["1P"] = Append(@, scene_info)]
    /\ main_pipe' = <<>>
    /\ pc' = "recv_1P"
    /\ UNCHANGED <<recv_end, scene, scene_info, ready_instruct, polled, instruction>>

\* _send_scene_info(scene_info), then the tick wait, during which the drawing
\* process reads what is on _main_pipe.
SendSceneInfo ==
    /\ pc = "send"
    /\ send_end' = [s \in Sides |-> Append(send_end[s], scene_info)]
    /\ main_pipe' = <<>>
    /\ pc' = "recv_1P"
    /\ UNCHANGED <<recv_end, scene, scene_info, ready_instruct, polled, instruction>>

\* A from_side that is neither "1P" nor "2P".
InvalidSides == {"3P"}

\* The statement that calls _recv_instruction(side); game_loop has one for
\* each of the two sides, "recv_other" stands for a call with another side.
RecvLabel(side) ==
    IF side = "1P" THEN "recv_1P"
    ELSE IF side = "2P" THEN "recv_2P"
    ELSE "recv_other"

AfterRecv(side) == IF side = "1P" THEN "recv_2P" ELSE "main_send"

\* Mutant: recv() without the poll() before it.
RecvInstruction_NoPoll(from_side) ==
    /\ pc = RecvLabel(from_side)
    /\ recv_end[from_side] # <<>>
    /\ polled' = [polled EXCEPT ![from_side] = RecvPolled(recv_end[from_side])]
    /\ recv_end' = [recv_end EXCEPT ![from_side] = RecvRest(@)]
    /\ main_pipe' = main_pipe \o RecvRelay(recv_end[from_side])
    /\ instruction' = [instruction EXCEPT ![from_side] = RecvReturn(recv_end[from_side])]
    /\ pc' = AfterRecv(from_side)
    /\ UNCHANGED <<send_end, scene, scene_info, ready_instruct>>

\* Mutant: a from_side that is not "1P" is taken for "2P" without a check.
RecvInstruction_ElseSecond(from_side) ==
    /\ pc = RecvLabel(from_side)
    /\ LET side == IF from_side = "1P" THEN "1P" ELSE "2P" IN
       /\ polled' = [polled EXCEPT ![side] = RecvPolled(recv_end[side])]
       /\ recv_end' = [recv_end EXCEPT ![side] = RecvRest(@)]
       /\ main_pipe' = main_pipe \o RecvRelay(recv_end[side])
       /\ instruction' = [instruction EXCEPT ![side] = RecvReturn(recv_end[side])]
    /\ pc' = AfterRecv(from_side)
    /\ UNCHANGED <<send_end, scene, scene_info, ready_instruct>>

\* instruction_<side> = self._recv_instruction(side)
RecvInstruction(from_side) ==
    /\ pc = RecvLabel(from_side)
    /\ IF from_side \notin Sides
       THEN /\ pc' = "ValueError"
            /\ UNCHANGED <<polled, recv_end, main_pipe, instruction>>
       ELSE /\ polled' = [polled EXCEPT ![from_side] = RecvPolled(recv_end[from_side])]
            /\ recv_end' = [recv_end EXCEPT ![from_side] = RecvRest(@)]
            /\ main_pipe' = main_pipe \o RecvRelay(recv_end[from_side])
            /\ instruction' = [instruction EXCEPT ![from_side] =
                                  RecvReturn(recv_end[from_side])]
            /\ pc' = AfterRecv(from_side)
    /\ UNCHANGED <<send_end, scene, scene_info, ready_instruct>>

\* Mutant: the tick's message overtakes the exceptions relayed in the tick.
MainSend_PairFirst ==
    /\ pc = "main_send"
    /\ main_pipe' = << <<scene_info, <<instruction["1P"], instruction["2P"]>> >> >>
                        \o main_pipe
    /\ pc' = "update"
    /\ UNCHANGED <<recv_end, send_end, scene, scene_info, ready_instruct, polled,
                   instruction>>

\* Mutant: the tick's message to the main process carries no instructions.
MainSend_NoInstructions ==
    /\ pc = "main_send"
    /\ main_pipe' = Append(main_pipe, <<scene_info, None>>)
    /\ pc' = "update"
    /\ UNCHANGED <<recv_end, send_end, scene, scene_info, ready_instruct, polled,
                   instruction>>

\* self._main_pipe.send((scene_info, (instruction_1P, instruction_2P)))
MainSend ==
    /\ pc = "main_send"
    /\ main_pipe' = Append(main_pipe,
                           <<scene_info, <<instruction["1P"], instruction["2P"]>> >>)
    /\ pc' = "update"
    /\ UNCHANGED <<recv_end, send_end, scene, scene_info, ready_instruct, polled,
                   instruction>>

\* Mutant: the main process is also sent the scene info the update results in,
\* with the instructions that led to it.
Update_SendsResult ==
    /\ pc = "update"
    /\ IF instruction["1P"].command \in PlatformMoveAction
          /\ instruction["2P"].command \in PlatformMoveAction
       THEN \E updated \in SceneUpdate(scene) :
               /\ scene' = updated
               /\ scene_info' = fill_scene_info_obj(updated)
               /\ main_pipe' = Append(main_pipe,
                                      <<fill_scene_info_obj(updated),
                                        <<instruction["1P"], instruction["2P"]>> >>)
               /\ pc' = IF updated.status \in {"GAME_1P_WIN", "GAME_2P_WIN"}
                        THEN "end_send" ELSE "send"
       ELSE /\ pc' = "raised"
            /\ UNCHANGED <<scene, scene_info, main_pipe>>
    /\ polled' = [s \in Sides |-> <<>>]
    /\ instruction' = [s \in Sides |-> None]
    /\ UNCHANGED <<recv_end, send_end, ready_instruct>>

\* Mutant: scene_info is not filled again after the update.
Update_StaleSceneInfo ==
    /\ pc = "update"
    /\ IF instruction["1P"].command \in PlatformMoveAction
          /\ instruction["2P"].command \in PlatformMoveAction
       THEN \E updated \in SceneUpdate(scene) :
               /\ scene' = updated
               /\ scene_info' = scene_info
               /\ pc' = IF updated.status \in {"GAME_1P_WIN", "GAME_2P_WIN"}
                        THEN "end_send" ELSE "send"
       ELSE /\ pc' = "raised"
            /\ UNCHANGED <<scene, scene_info>>
    /\ polled' = [s \in Sides |-> <<>>]
    /\ instruction' = [s \in Sides |-> None]
    /\ UNCHANGED <<recv_end, send_end, main_pipe, ready_instruct>>

\* scene.update(PlatformMoveAction[...], PlatformMoveAction[...]), the new
\* scene_info and the test of game_status.  The lookup raises KeyError for a
\* command that PlatformMoveAction does not name.  polled and instruction are
\* not read again before the next tick assigns them.
Update ==
    /\ pc = "update"
    /\ IF instruction["1P"].command \in PlatformMoveAction
          /\ instruction["2P"].command \in PlatformMoveAction
       THEN \E updated \in SceneUpdate(scene) :
               /\ scene' = updated
               /\ scene_info' = fill_scene_info_obj(updated)
               /\ pc' = IF updated.status \in {"GAME_1P_WIN", "GAME_2P_WIN"}
                        THEN "end_send" ELSE "send"
       ELSE /\ pc' = "raised"
            /\ UNCHANGED <<scene, scene_info>>
    /\ polled' = [s \in Sides |-> <<>>]
    /\ instruction' = [s \in Sides |-> None]
    /\ UNCHANGED <<recv_end, send_end, main_pipe, ready_instruct>>

\* Mutant: the last scene info of the round is sent twice.
RoundEndSend_Twice ==
    /\ pc = "end_send"
    /\ send_end' = [s \in Sides |-> send_end[s] \o <<scene_info, scene_info>>]
    /\ pc' = "end_main"
    /\ UNCHANGED <<recv_end, main_pipe, scene, scene_info, ready_instruct, polled,
                   instruction>>

\* self._send_scene_info(scene_info) of the finished round
RoundEndSend ==
    /\ pc = "end_send"
    /\ send_end' = [s \in Sides |-> Append(send_end[s], scene_info)]
    /\ pc' = "end_main"
    /\ UNCHANGED <<recv_end, main_pipe, scene, scene_info, ready_instruct, polled,
                   instruction>>

\* Mutant: the main process is not told that the round is over.
RoundEndMainSend_Forgotten ==
    /\ pc = "end_main"
    /\ pc' = "reset"
    /\ UNCHANGED <<recv_end, send_end, main_pipe, scene, scene_info, ready_instruct,
                   polled, instruction>>

\* self._main_pipe.send((scene_info, None))
RoundEndMainSend ==
    /\ pc = "end_main"
    /\ main_pipe' = Append(main_pipe, <<scene_info, None>>)
    /\ pc' = "reset"
    /\ UNCHANGED <<recv_end, send_end, scene, scene_info, ready_instruct, polled,
                   instruction>>

\* scene.reset(), the new scene_info, and the entry of _wait_ml_process_ready,
\* where the game process waits again and the drawing process catches up.
Reset ==
    /\ pc = "reset"
    /\ scene' = SceneInit
    /\ scene_info' = fill_scene_info_obj(SceneInit)
    /\ send_end' = [s \in Sides |-> <<>>]
    /\ main_pipe' = <<>>
    /\ pc' = "wait_1P"
    /\ UNCHANGED <<recv_end, ready_instruct, polled, instruction>>

\* The statements of the game process.
GameLoop ==
    \/ \E side \in Sides : WaitReadyCommand(side)
    \/ SendSceneInfo
    \/ \E side \in Sides : RecvInstruction(side)
    \/ MainSend
    \/ Update
    \/ RoundEndSend
    \/ RoundEndMainSend
    \/ Reset

Next ==
    \/ \E side \in Sides, msg \in Messages : MLSend(side, msg)
    \/ GameLoop

Spec == Init /\ [][Next]_vars

\* The messages that the handshake tells apart: a READY, an instruction that
\* is no READY, and an exception.
HandshakeMessages ==
    {GameInstruction(s, c) : s \in SequenceIds, c \in {"READY", "MOVE_LEFT"}}
        \cup {ExceptionMessage}

HandshakeNext ==
    \/ \E side \in Sides, msg \in HandshakeMessages : MLSend(side, msg)
    \/ GameLoop

\* The game process is a running process: it runs its next statement unless
\* that statement is a recv() on an empty pipe.
FairSpec == Init /\ [][HandshakeNext]_vars /\ WF_vars(GameLoop)

\* ------------------------------------------- _recv_instruction on its own
\* The sequences over S of length n at most.
SeqUpTo(S, n) == UNION {[1..k -> S] : k \in 0..n}

\* A call of _recv_instruction in the first tick of a round, with any
\* from_side and with anything on the instruction pipes.
RecvInit ==
    /\ pc \in {RecvLabel("1P")} \cup {RecvLabel(side) : side \in InvalidSides}
    /\ recv_end \in {pipes \in [Sides -> SeqUpTo(Messages, MaxInFlight)] :
                        Len(pipes["1P"]) + Len(pipes["2P"]) <= MaxInFlight}
    /\ send_end = [s \in Sides |-> <<fill_scene_info_obj(SceneInit)>>]
    /\ main_pipe = <<>>
    /\ scene = SceneInit
    /\ scene_info = fill_scene_info_obj(SceneInit)
    /\ ready_instruct = None
    /\ polled = [s \in Sides |-> <<>>]
    /\ instruction = [s \in Sides |-> None]

RecvNext == \E from_side \in Sides \cup InvalidSides : RecvInstruction(from_side)

RecvSpec == RecvInit /\ [][RecvNext]_vars

\* ---------------------------------------------------------------- claims
Win == {"GAME_1P_WIN", "GAME_2P_WIN"}

BarrierLabels == {"wait_1P", "wait_2P"}

Last(log) == log[Len(log)]

\* A message that ends wait_ready_command: a READY instruction or an exception.
Resolving(msg) ==
    \/ isinstance(msg, "ExceptionMessage")
    \/ isinstance(msg, "GameInstruction") /\ msg.command = "READY"

\* The step in which the game process, waiting on side, reads a message.
WaitRead(side) ==
    /\ pc = WaitLabel(side)
    /\ recv_end[side] # <<>>
    /\ recv_end'[side] = Tail(recv_end[side])

\* The step in which the game process polls side.
Polls(side) == pc = RecvLabel(side) /\ pc' # pc

\* C1: when a side's instruction pipe is empty at the poll, _recv_instruction
\* does not block, returns GameInstruction(-1, NONE), takes no message from
\* either pipe and sends nothing on the main pipe.
C1_EmptyPollReturnsDefault ==
    /\ [](\A side \in Sides :
            pc = RecvLabel(side) => ENABLED RecvInstruction(side))
    /\ [][\A side \in Sides :
            (Polls(side) /\ recv_end[side] = <<>>)
                => /\ instruction'[side] = GameInstruction(-1, "NONE")
                   /\ recv_end' = recv_end
                   /\ main_pipe' = main_pipe]_vars

C1_Witness ==
    /\ pc = "main_send"
    /\ polled["1P"] = <<>> /\ polled["2P"] = <<>>
    /\ instruction["1P"] = GameInstruction(-1, "NONE")
    /\ instruction["2P"] = GameInstruction(-1, "NONE")
    /\ main_pipe = <<>>

\* C2: a GameInstruction taken by the poll is returned unchanged when its
\* command is MOVE_LEFT or MOVE_RIGHT, and with the same sequence and the
\* command NONE otherwise.
C2_MoveKeptOtherCoerced ==
    \A side \in Sides :
        (polled[side] # <<>> /\ isinstance(polled[side][1], "GameInstruction"))
            => LET taken == polled[side][1] IN
               IF taken.command \in {"MOVE_LEFT", "MOVE_RIGHT"}
               THEN instruction[side] = taken
               ELSE instruction[side] = GameInstruction(taken.sequence, "NONE")

C2_Witness ==
    /\ pc = "main_send"
    /\ polled["1P"] = <<GameInstruction(1, "READY")>>
    /\ instruction["1P"] = GameInstruction(1, "NONE")
    /\ polled["2P"] = <<GameInstruction(1, "MOVE_RIGHT")>>
    /\ instruction["2P"] = GameInstruction(1, "MOVE_RIGHT")

\* C3: between two broadcasts the game process polls each side once, a poll
\* takes at most the oldest message of that side's pipe and leaves the others
\* queued in their order, and no other statement of the tick takes a message.
C3_OneMessagePerTick ==
    [][/\ \A side \in Sides :
            Polls(side)
                => /\ pc' = AfterRecv(side)
                   /\ recv_end' = [recv_end EXCEPT
                                     ![side] = IF @ = <<>> THEN <<>> ELSE Tail(@)]
       /\ (pc \notin BarrierLabels \cup {"recv_1P", "recv_2P"} /\ pc' # pc)
                => recv_end' = recv_end
       /\ (pc' = "recv_1P" /\ pc # "recv_1P") => pc = "send"
       /\ (pc' = "recv_2P" /\ pc # "recv_2P") => pc = "recv_1P"]_vars

C3_Witness ==
    /\ pc = "main_send"
    /\ polled["1P"] = <<GameInstruction(1, "MOVE_LEFT")>>
    /\ recv_end["1P"] = <<GameInstruction(1, "MOVE_RIGHT")>>
    /\ polled["2P"] = <<>>

\* C4: when the poll takes an ExceptionMessage, the game process sends
\* (ExceptionMessage, None) on the main pipe, uses GameInstruction(-1, NONE)
\* for that side, goes on with the tick without raising, and the statement
\* that follows the update sends a SceneInfo to both ml processes.
C4_ExceptionRelayedTickGoesOn ==
    /\ [](pc # "raised")
    /\ [](pc \in {"recv_2P", "main_send", "update", "send", "end_send"}
            => ENABLED GameLoop)
    /\ [][/\ \A side \in Sides :
               (/\ Polls(side)
                /\ recv_end[side] # <<>>
                /\ isinstance(Head(recv_end[side]), "ExceptionMessage"))
                   => /\ main_pipe'
                          = Append(main_pipe, <<Head(recv_end[side]), None>>)
                      /\ instruction'[side] = GameInstruction(-1, "NONE")
                      /\ pc' = AfterRecv(side)
          /\ (/\ pc = "update" /\ pc' # pc
              /\ \E side \in Sides : polled[side] = <<ExceptionMessage>>)
                 => pc' \in {"send", "end_send"}
          /\ (pc \in {"send", "end_send"} /\ pc' # pc)
                 => /\ isinstance(scene_info, "SceneInfo")
                    /\ \A s \in Sides :
                          send_end'[s] = Append(send_end[s], scene_info)]_vars

C4_Witness ==
    /\ pc = "main_send"
    /\ polled["1P"] = <<GameInstruction(1, "MOVE_LEFT")>>
    /\ polled["2P"] = <<ExceptionMessage>>
    /\ instruction["2P"] = GameInstruction(-1, "NONE")
    /\ main_pipe = << <<ExceptionMessage, None>> >>

\* C5: the game process leaves _wait_ml_process_ready only in the step in
\* which it reads a READY instruction or an exception from 2P, and it starts
\* to wait on 2P only in the step in which it reads one from 1P: it never
\* leaves with only one side resolved.
C5_BarrierNeedsBothSides ==
    [][/\ (pc \in BarrierLabels /\ pc' \notin BarrierLabels)
            => /\ WaitRead("2P")
               /\ Resolving(Head(recv_end["2P"]))
       /\ (pc' = "wait_2P" /\ pc # "wait_2P")
            => /\ WaitRead("1P")
               /\ Resolving(Head(recv_end["1P"]))]_vars

C5_Witness ==
    /\ pc = "send"
    /\ send_end["1P"] = <<>> /\ send_end["2P"] = <<>>
    /\ main_pipe = <<>>

\* C6: when the game process, waiting on a side, reads an ExceptionMessage,
\* it sends (ExceptionMessage, None) on the main pipe and stops waiting on
\* that side: after 1P it waits on 2P, after 2P it goes on to the tick loop.
C6_BarrierExceptionAbandons ==
    [][\A side \in Sides :
          (WaitRead(side) /\ isinstance(Head(recv_end[side]), "ExceptionMessage"))
              => /\ main_pipe'
                     = Append(main_pipe, <<Head(recv_end[side]), None>>)
                 /\ pc' = IF side = "1P" THEN "wait_2P" ELSE "send"
                 /\ scene' = scene]_vars

C6_Witness ==
    /\ pc = "send"
    /\ send_end["1P"] = <<>> /\ send_end["2P"] = <<>>
    /\ main_pipe = << <<ExceptionMessage, None>> >>

\* C7: a message read while waiting that is neither a READY instruction nor
\* an exception is dropped: nothing is sent on the main pipe or to the ml
\* processes, the scene and the instructions are untouched, and the game
\* process keeps waiting on the same side.
C7_BarrierDiscardsOthers ==
    [][\A side \in Sides :
          (WaitRead(side) /\ ~Resolving(Head(recv_end[side])))
              => /\ pc' = pc
                 /\ recv_end' = [recv_end EXCEPT ![side] = Tail(@)]
                 /\ UNCHANGED <<main_pipe, send_end, scene, scene_info, polled,
                                instruction>>]_vars

C7_Witness ==
    /\ pc = "wait_2P"
    /\ ready_instruct = <<GameInstruction(1, "MOVE_LEFT")>>
    /\ main_pipe = <<>>

\* The scene infos of a log whose status is a win.
WinsIn(log) == {i \in DOMAIN log : log[i].status \in Win}

\* The messages of the main pipe that carry a scene info.
SceneInfosOn(pipe) ==
    {i \in DOMAIN pipe : isinstance(pipe[i][1], "SceneInfo")}

\* C8: once scene.update has returned a win, the game process sends the last
\* scene info to both ml processes, then (scene_info, None) on the main pipe,
\* then resets the scene, then waits in _wait_ml_process_ready; nothing of
\* the next round is sent to an ml process before the wait is over.
C8_RoundEndOrder ==
    /\ scene.status \in Win => pc \in {"end_send", "end_main", "reset"}
    /\ pc = "end_send"
         => /\ scene.status \in Win
            /\ scene_info = fill_scene_info_obj(scene)
            /\ \A s \in Sides : WinsIn(send_end[s]) = {}
            /\ \A i \in DOMAIN main_pipe : main_pipe[i] # <<scene_info, None>>
    /\ pc = "end_main"
         => /\ scene.status \in Win
            /\ \A s \in Sides : Last(send_end[s]) = scene_info
            /\ \A i \in DOMAIN main_pipe : main_pipe[i] # <<scene_info, None>>
    /\ pc = "reset"
         => /\ scene.status \in Win
            /\ \A s \in Sides : Last(send_end[s]) = scene_info
            /\ Last(main_pipe) = <<scene_info, None>>
    /\ pc \in BarrierLabels
         => /\ scene = SceneInit
            /\ scene_info = fill_scene_info_obj(SceneInit)
            /\ \A s \in Sides : send_end[s] = <<>>

C8_Witness ==
    /\ pc = "reset"
    /\ scene.status = "GAME_1P_WIN"
    /\ Last(send_end["1P"]) = scene_info
    /\ Last(send_end["2P"]) = scene_info
    /\ Last(main_pipe) = <<scene_info, None>>

\* C9: in a round each ml process is sent exactly one scene info whose status
\* is a win, it is the last one sent before scene.reset(), and the first scene
\* info sent after the reset has the status GAME_ALIVE; the main pipe too
\* carries one scene info with a win, the last message before the reset.
C9_OneWinPerRound ==
    /\ LET wins == {i \in SceneInfosOn(main_pipe) : main_pipe[i][1].status \in Win}
       IN  wins = IF pc = "reset" THEN {Len(main_pipe)} ELSE {}
    /\ \A s \in Sides :
        /\ Cardinality(WinsIn(send_end[s])) <= 1
        /\ WinsIn(send_end[s]) # {}
             => /\ WinsIn(send_end[s]) = {Len(send_end[s])}
                /\ pc \in {"end_main", "reset"}
        /\ pc = "reset" => Cardinality(WinsIn(send_end[s])) = 1
        /\ send_end[s] # <<>>
             => send_end[s][1] = [type |-> "SceneInfo", frame |-> 0,
                                  status |-> "GAME_ALIVE"]

C9_Witness ==
    /\ pc = "reset"
    /\ \A s \in Sides :
          /\ Len(send_end[s]) = 3
          /\ send_end[s][1].status = "GAME_ALIVE"
          /\ send_end[s][2].status = "GAME_ALIVE"
          /\ send_end[s][3].status = "GAME_2P_WIN"

\* C10: whatever the ml processes put on their pipes, each of the two commands
\* given to scene.update is NONE, MOVE_LEFT or MOVE_RIGHT, and the game
\* process never raises on what it received.
C10_CommandsValidated ==
    /\ pc # "raised"
    /\ pc \in {"main_send", "update"}
         => \A side \in Sides :
               /\ instruction[side] # None
               /\ instruction[side].command \in {"NONE", "MOVE_LEFT", "MOVE_RIGHT"}
    /\ \A side \in Sides :
          instruction[side] # None
              => instruction[side].command \in {"NONE", "MOVE_LEFT", "MOVE_RIGHT"}

C10_Witness ==
    /\ pc = "update"
    /\ polled["1P"] = <<GameInstruction(1, "READY")>>
    /\ polled["2P"] = <<GameInstruction(1, "UNKNOWN")>>
    /\ instruction["1P"].command = "NONE"
    /\ instruction["2P"].command = "NONE"

\* C11: whenever the game process is about to poll a side in a tick, it has
\* already sent this tick's scene info, the same one, to both ml processes.
C11_BroadcastBeforePoll ==
    pc \in {"recv_1P", "recv_2P"}
        => /\ \A s \in Sides :
                 /\ send_end[s] # <<>>
                 /\ Last(send_end[s]) = scene_info
           /\ send_end["1P"] = send_end["2P"]
           /\ polled["2P"] = <<>>
           /\ pc = "recv_1P" => polled["1P"] = <<>>

C11_Witness ==
    /\ pc = "recv_1P"
    /\ send_end["1P"] = send_end["2P"]
    /\ Len(send_end["1P"]) = 2
    /\ Last(send_end["1P"]).frame = 1
    /\ recv_end["1P"] # <<>> /\ recv_end["2P"] # <<>>

\* C12: within a round no ml process is sent two scene infos of the same
\* frame: the i-th scene info sent since the reset is that of frame i - 1,
\* whether it is a tick's or the last one of the round.
C12_OneSceneInfoPerFrame ==
    \A s \in Sides :
        /\ \A i \in DOMAIN send_end[s] : send_end[s][i].frame = i - 1
        /\ \A i, j \in DOMAIN send_end[s] :
              i # j => send_end[s][i].frame # send_end[s][j].frame

C12_Witness ==
    /\ pc = "end_main"
    /\ \A s \in Sides :
          /\ Len(send_end[s]) = 3
          /\ send_end[s][2].frame = 1
          /\ send_end[s][3].frame = 2
          /\ send_end[s][3].status \in Win

\* C13: outside _wait_ml_process_ready the game process always has a next
\* statement to run, whatever the pipes hold: with nothing received from a
\* side the tick goes on with GameInstruction(-1, NONE) for that side and
\* with what the other side sent; the game process is blocked only while it
\* waits in _wait_ml_process_ready on a side whose pipe is empty.
C13_SilentSideBlocksOnlyBarrier ==
    /\ pc \notin BarrierLabels => ENABLED GameLoop
    /\ ~(ENABLED GameLoop)
         => \E side \in Sides : pc = WaitLabel(side) /\ recv_end[side] = <<>>
    /\ \A side \in Sides :
          (pc \in {"main_send", "update"} /\ polled[side] = <<>>)
              => /\ instruction[side] = GameInstruction(-1, "NONE")
                 /\ \A other \in Sides \ {side} :
                       /\ instruction[other] # None
                       /\ polled[other] \in
                            { <<GameInstruction(q, c)>> :
                                q \in SequenceIds, c \in {"MOVE_LEFT", "MOVE_RIGHT"} }
                              => <<instruction[other]>> = polled[other]

C13_Witness ==
    /\ pc = "update"
    /\ scene.frame = 1
    /\ polled["1P"] = <<>> /\ recv_end["1P"] = <<>>
    /\ instruction["1P"] = GameInstruction(-1, "NONE")
    /\ polled["2P"] = <<GameInstruction(1, "MOVE_RIGHT")>>
    /\ instruction["2P"] = GameInstruction(1, "MOVE_RIGHT")
    /\ recv_end["2P"] # <<>>

\* The instructions of a message of the main pipe are a pair of instructions.
IsInstructionPair(instructions) ==
    /\ Len(instructions) = 2
    /\ \A k \in 1..2 : isinstance(instructions[k], "GameInstruction")

\* C14 as stated: when the round ends with a win in the scene info of frame N,
\* the last two messages on the main pipe before the reset are (scene info of
\* frame N, instructions) and (scene info, None).
C14_FinalPairCarriesWinFrame ==
    pc = "reset"
        => /\ Len(main_pipe) >= 2
           /\ LET final == main_pipe[Len(main_pipe) - 1] IN
              /\ isinstance(final[1], "SceneInfo")
              /\ final[1].frame = scene.frame
              /\ IsInstructionPair(final[2])
           /\ Last(main_pipe) = <<scene_info, None>>

\* C14 as amended: when the round ends with a win in the scene info of frame
\* N, the last two messages on the main pipe before the reset are (scene info
\* of frame N - 1 with the status GAME_ALIVE, instructions) and (scene info of
\* frame N with the win, None); after the reset the scene is at frame 0 and
\* the game process waits in _wait_ml_process_ready.
C14_FinalPairCarriesPreviousFrame ==
    /\ pc = "reset"
         => /\ scene.status \in Win
            /\ Len(main_pipe) >= 2
            /\ LET final == main_pipe[Len(main_pipe) - 1] IN
               /\ final[1] = [type |-> "SceneInfo", frame |-> scene.frame - 1,
                               status |-> "GAME_ALIVE"]
               /\ IsInstructionPair(final[2])
            /\ Last(main_pipe)
                 = << [type |-> "SceneInfo", frame |-> scene.frame,
                       status |-> scene.status], None >>
    /\ pc \in BarrierLabels
         => /\ scene.frame = 0 /\ scene_info.frame = 0
            /\ \A i \in DOMAIN main_pipe :
                  isinstance(main_pipe[i][1], "ExceptionMessage")

C14_Witness ==
    /\ pc = "reset"
    /\ scene.frame = 2
    /\ Len(main_pipe) = 3
    /\ main_pipe[1] = <<ExceptionMessage, None>>
    /\ main_pipe[2][1].frame = 1
    /\ main_pipe[3] = <<scene_info, None>>

\* The first message of a pipe that ends wait_ready_command is a READY.
ReadyComesFirst(pipe) ==
    \E i \in DOMAIN pipe :
        /\ isinstance(pipe[i], "GameInstruction") /\ pipe[i].command = "READY"
        /\ \A j \in 1..(i - 1) : ~Resolving(pipe[j])

\* The game process has sent the first scene info of the round, and only it.
FirstSceneInfoSent ==
    /\ pc = "recv_1P"
    /\ \A s \in Sides : send_end[s] = <<fill_scene_info_obj(SceneInit)>>

\* C15: when the game process waits in _wait_ml_process_ready (at the start
\* or after a reset) and the READY of each side it still waits on is queued
\* with no exception before it, it eventually leaves the wait and sends the
\* scene info of frame 0 to both ml processes; as long as it waits, it has
\* sent nothing of the round.
C15_ReadyLeadsToFirstTick ==
    /\ [](pc \in BarrierLabels => \A s \in Sides : send_end[s] = <<>>)
    /\ (/\ pc = "wait_1P"
        /\ ReadyComesFirst(recv_end["1P"])
        /\ ReadyComesFirst(recv_end["2P"])) ~> FirstSceneInfoSent
    /\ (pc = "wait_2P" /\ ReadyComesFirst(recv_end["2P"])) ~> FirstSceneInfoSent

C15_Witness ==
    /\ pc = "wait_1P"
    /\ ready_instruct = None
    /\ recv_end["1P"] = <<GameInstruction(1, "READY")>>
    /\ recv_end["2P"] = <<GameInstruction(1, "READY")>>

\* What the poll of a side has put on the main pipe in this tick.
RelayedFor(side) ==
    IF polled[side] = <<ExceptionMessage>>
    THEN << <<ExceptionMessage, None>> >>
    ELSE <<>>

\* C16: in a tick the main pipe receives, in this order, (ExceptionMessage,
\* None) if the poll of 1P took an exception, (ExceptionMessage, None) if the
\* poll of 2P took one, then the tick's (scene_info, (instruction_1P,
\* instruction_2P)), with GameInstruction(-1, NONE) for a side whose poll took
\* an exception.
C16_MainPipeOrder ==
    /\ pc = "recv_2P" => main_pipe = RelayedFor("1P")
    /\ pc = "main_send" => main_pipe = RelayedFor("1P") \o RelayedFor("2P")
    /\ pc = "update"
         => /\ main_pipe
                 = RelayedFor("1P") \o RelayedFor("2P")
                     \o << <<scene_info, <<instruction["1P"], instruction["2P"]>> >> >>
            /\ \A side \in Sides :
                  polled[side] = <<ExceptionMessage>>
                      => instruction[side] = GameInstruction(-1, "NONE")

C16_Witness ==
    /\ pc = "update"
    /\ polled["1P"] = <<ExceptionMessage>>
    /\ polled["2P"] = <<GameInstruction(1, "MOVE_LEFT")>>
    /\ main_pipe = << <<ExceptionMessage, None>>,
                      <<scene_info, <<GameInstruction(-1, "NONE"),
                                      GameInstruction(1, "MOVE_LEFT")>> >> >>

\* C17: as long as the game process waits on 1P it reads nothing from 2P's
\* pipe, whose messages stay queued in their order, and what it sends on the
\* main pipe is the exception it has just read from 1P; a READY or an
\* exception of 2P is read only once the wait on 1P is over.
C17_BarrierFirstSideFirst ==
    [][pc = "wait_1P"
          => /\ \/ recv_end'["2P"] = recv_end["2P"]
                \/ \E msg \in Messages :
                      recv_end'["2P"] = Append(recv_end["2P"], msg)
             /\ main_pipe' # main_pipe
                  => /\ recv_end["1P"] # <<>>
                     /\ isinstance(Head(recv_end["1P"]), "ExceptionMessage")
                     /\ recv_end'["1P"] = Tail(recv_end["1P"])
                     /\ main_pipe'
                          = Append(main_pipe, <<Head(recv_end["1P"]), None>>)
             /\ pc' \in {"wait_1P", "wait_2P"}]_vars

C17_Witness ==
    /\ pc = "wait_1P"
    /\ ready_instruct = <<GameInstruction(1, "NONE")>>
    /\ recv_end["1P"] = <<>>
    /\ recv_end["2P"] = <<ExceptionMessage, GameInstruction(1, "READY")>>
    /\ main_pipe = <<>>

\* The messages of the main pipe that carry a scene info and instructions.
PairsOn(pipe) == {i \in SceneInfosOn(pipe) : pipe[i][2] # None}

\* C18: the scene info sent to the main process with a tick's instructions is
\* the one sent to the ml processes at the start of that tick, the scene
\* before the instructions are applied; the scene info that results from them
\* is not sent with them: if it carries a win it goes with None, otherwise it
\* waits for the next tick.
C18_PairCarriesSceneBeforeUpdate ==
    /\ Cardinality(PairsOn(main_pipe)) <= 1
    /\ \A i \in SceneInfosOn(main_pipe) :
          IF main_pipe[i][2] # None
          THEN main_pipe[i][1].status = "GAME_ALIVE"
          ELSE main_pipe[i][1].status \in Win /\ main_pipe[i][1] = scene_info
    /\ pc = "update"
         => /\ PairsOn(main_pipe) = {Len(main_pipe)}
            /\ Last(main_pipe)[1] = fill_scene_info_obj(scene)
            /\ \A s \in Sides : Last(main_pipe)[1] = Last(send_end[s])
    /\ pc \in {"send", "end_send", "end_main", "reset"}
         => \A i \in PairsOn(main_pipe) :
               /\ main_pipe[i][1] # scene_info
               /\ main_pipe[i][1].frame = scene_info.frame - 1
               /\ \A s \in Sides : main_pipe[i][1] = send_end[s][scene.frame]

C18_Witness ==
    /\ pc = "send"
    /\ scene_info.frame = 1
    /\ Len(main_pipe) = 1
    /\ main_pipe[1][1] = [type |-> "SceneInfo", frame |-> 0, status |-> "GAME_ALIVE"]
    /\ main_pipe[1][2] = <<GameInstruction(1, "MOVE_LEFT"), GameInstruction(1, "MOVE_RIGHT")>>

\* msg is a GameInstruction with the READY command.
IsReady(msg) == isinstance(msg, "GameInstruction") /\ msg.command = "READY"

\* A READY command is queued in pipe.
ReadyQueued(pipe) == \E i \in DOMAIN pipe : IsReady(pipe[i])

\* A step of the wait on side that takes something from the pipe of side.
WaitTakes(side) ==
    /\ pc = WaitLabel(side)
    /\ Len(recv_end'[side]) < Len(recv_end[side])

\* What holds of both readers of an instruction pipe: each read takes the head
\* only, the wait changes nothing of the game, an empty pipe blocks the wait
\* whatever was read before, and a READY taken by the poll of a tick is
\* returned with the command NONE and leaves the game loop in the tick.
OnePipeOneFifo ==
    /\ [](\A side \in Sides :
            pc = WaitLabel(side) => (ENABLED GameLoop <=> recv_end[side] # <<>>))
    /\ [][\A side \in Sides :
            /\ WaitTakes(side)
                 => /\ recv_end' = [recv_end EXCEPT ![side] = Tail(@)]
                    /\ UNCHANGED <<send_end, scene, scene_info, polled, instruction>>
            /\ Polls(side)
                 => /\ recv_end' = [recv_end EXCEPT ![side] =
                                       IF @ = <<>> THEN @ ELSE Tail(@)]
                    /\ pc' = AfterRecv(side)
                    /\ ready_instruct' = ready_instruct
                    /\ (recv_end[side] # <<>> /\ IsReady(Head(recv_end[side])))
                         => instruction'[side] =
                              GameInstruction(Head(recv_end[side]).sequence, "NONE")]_vars

\* C19 as stated: the wait on a side throws away every message queued ahead of
\* the READY command of the side, messages behind the READY are kept for the
\* polls of the round, one for each tick in the order queued, and a READY
\* taken by a poll is used as NONE and has no part in a later wait.
C19_WaitDiscardsAllAheadOfReady ==
    /\ OnePipeOneFifo
    /\ [][\A side \in Sides :
            (WaitRead(side) /\ ~IsReady(Head(recv_end[side]))
                            /\ ReadyQueued(Tail(recv_end[side])))
                => /\ pc' = pc
                   /\ main_pipe' = main_pipe]_vars

\* C19: the wait on a side throws away every message queued ahead of the first
\* READY command or exception of the side and ends with that message; the
\* messages behind it, a READY behind an exception among them, are kept for
\* the polls of the round, one for each tick in the order queued, and a READY
\* taken by a poll is used as NONE and has no part in a later wait.
C19_WaitDiscardsAheadOfResolving ==
    /\ OnePipeOneFifo
    /\ [][\A side \in Sides :
            WaitRead(side)
                => IF Resolving(Head(recv_end[side]))
                   THEN pc' = AfterWait(side)
                   ELSE pc' = pc /\ main_pipe' = main_pipe]_vars

C19_Witness ==
    /\ pc = "recv_2P"
    /\ scene.frame = 0
    /\ polled["1P"] = <<GameInstruction(1, "READY")>>
    /\ instruction["1P"] = GameInstruction(1, "NONE")
    /\ recv_end["1P"] = <<GameInstruction(1, "MOVE_LEFT")>>
    /\ Len(send_end["1P"]) = 1

\* C20: _recv_instruction called with a from_side other than "1P" and "2P"
\* raises ValueError where it is called and does nothing else: it takes nothing
\* from either instruction pipe and sends nothing to the main process.
C20_InvalidSideRaises ==
    /\ [](\A from_side \in InvalidSides :
            pc = RecvLabel(from_side) => ENABLED RecvInstruction(from_side))
    /\ [][\A from_side \in InvalidSides :
            pc = RecvLabel(from_side)
                => /\ pc' = "ValueError"
                   /\ UNCHANGED <<recv_end, main_pipe, send_end, scene, scene_info,
                                  ready_instruct, polled, instruction>>]_vars

C20_Witness ==
    /\ pc = "ValueError"
    /\ recv_end["1P"] = <<ExceptionMessage>>
    /\ recv_end["2P"] = <<GameInstruction(1, "MOVE_RIGHT")>>
    /\ main_pipe = <<>>
    /\ instruction = [s \in Sides |-> None]

====
